---------------------------- MODULE Spec2Model ----------------------------
(***************************************************************************)
(* State-machine model of the audio-to-spectrogram pipeline of             *)
(* kaggle-notebook.ipynb (preprocessing.py): load_and_preprocess_audio,    *)
(* create_mel_spectrogram, resize_for_cnn, get_audio_augmenter,            *)
(* spec_augment, process_dataset, SpectrogramDataset.__getitem__ and       *)
(* process_example_file.  Each function has its own specification          *)
(* (SpecBatch, SpecLoad, ...) over the shared variables; the variables of  *)
(* the functions a specification does not run stay at their idle values.   *)
(***************************************************************************)
EXTENDS Integers, Sequences, FiniteSets, TLC

VARIABLES
    \* process_dataset
    pdList,      \* os.listdir(parkinsons_dir): sequence of [name, ok]
    hcList,      \* os.listdir(control_dir)
    bpc,         \* position of process_dataset
    bidx,        \* number of entries of the current listing already visited
    data,        \* the list of records (line 210)
    skipped,     \* files for which "Error loading" was printed (line 47)
    written      \* output paths handed to cv2.imwrite

VARIABLES
    saArg,      \* the matrix as it was when spec_augment was called
    saCaller,   \* the caller's array now
    saSpec,     \* the local spec
    saPc,       \* position of spec_augment
    saI,        \* loop counter i
    saMasks     \* the masks applied so far: [axis, start, width]


VARIABLES
    lib,         \* audiomentations as installed: what each constructor does
    gaPc,        \* position of get_audio_augmenter
    augmenter,   \* the transforms of the Compose that was built
    gaError      \* the exception that left get_audio_augmenter, or "none"

VARIABLES
    plFn,        \* the entry point: "getitem" or "example"
    plAugment,   \* self.augment / the augment argument
    plExists,    \* os.path.exists(row['spectrogram_path'])
    plReadable,  \* whether librosa.load can read original_path
    plTransform, \* whether self.transform is set
    plPc,        \* position in the entry point
    plKind,      \* what the value in hand is: none, waveform, matrix, image
    plStages     \* the stages run so far: [stage, input]

VARIABLES
    ldFile,      \* the file: [ok, wave], wave what librosa.load returns
    ldPc,        \* position of load_and_preprocess_audio
    ldTrimmed,   \* y after librosa.effects.trim (line 51)
    ldActive,    \* active_frames (line 62), as a set of frame indices
    ldCropped,   \* y after the energy crop (lines 64-70)
    ldOut,       \* the value returned: a waveform or None
    ldPrinted    \* whether "Error loading" was printed

VARIABLES
    exFrames,    \* the frames of mel_spec (line 82): [shape, level] each
    exPc,        \* position of create_mel_spectrogram
    exDb,        \* mel_spec_db before the crop (line 90), a sequence of frames
    exActive,    \* active_cols (line 99), as a set of frame indices from 0
    exOut        \* the matrix returned (line 107)

VARIABLES
    fmSpec,      \* the matrix given to resize_for_cnn, rows of decibel values
    fmTarget,    \* target_size: <<height, width>>
    fmFloat64,   \* whether the matrix is float64 (float32 otherwise)
    fmPc,        \* position of resize_for_cnn
    fmOut        \* the image returned: rows of pixels, a pixel <<r, g, b>>

batchVars == <<pdList, hcList, bpc, bidx, data, skipped, written>>

augVars == <<saArg, saCaller, saSpec, saPc, saI, saMasks>>

gaVars == <<lib, gaPc, augmenter, gaError>>

plVars == <<plFn, plAugment, plExists, plReadable, plTransform, plPc, plKind,
           plStages>>

ldVars == <<ldFile, ldPc, ldTrimmed, ldActive, ldCropped, ldOut, ldPrinted>>

exVars == <<exFrames, exPc, exDb, exActive, exOut>>

fmVars == <<fmSpec, fmTarget, fmFloat64, fmPc, fmOut>>

vars == <<batchVars, augVars, gaVars, plVars, ldVars, exVars, fmVars>>

\* The variables each function leaves alone
notBatch == <<augVars, gaVars, plVars, ldVars, exVars, fmVars>>

notAug == <<batchVars, gaVars, plVars, ldVars, exVars, fmVars>>

notGa == <<batchVars, augVars, plVars, ldVars, exVars, fmVars>>

notPl == <<batchVars, augVars, gaVars, ldVars, exVars, fmVars>>

notLd == <<batchVars, augVars, gaVars, plVars, exVars, fmVars>>

notEx == <<batchVars, augVars, gaVars, plVars, ldVars, fmVars>>

notFm == <<batchVars, augVars, gaVars, plVars, ldVars, exVars>>


-----------------------------------------------------------------------------
(* Sequence helpers *)

Range(s) == {s[i] : i \in 1..Len(s)}

Max2(a, b) == IF a >= b THEN a ELSE b

Min2(a, b) == IF a <= b THEN a ELSE b

\* All sequences without repetition over S of length at most n
RECURSIVE InjSeqs(_, _)
InjSeqs(S, n) ==
    IF n = 0 THEN {<<>>}
    ELSE LET shorter == InjSeqs(S, n - 1)
         IN shorter \cup
            UNION {{Append(s, x) : x \in S \ Range(s)} : s \in shorter}

-----------------------------------------------------------------------------
(* Strings are sequences of one-character strings, so that endswith and    *)
(* slicing are computed on the characters.                                 *)

DotWav == <<".", "w", "a", "v">>

DotPng == <<".", "p", "n", "g">>

PdPrefix == <<"p", "d", "_">>

ControlPrefix == <<"c", "o", "n", "t", "r", "o", "l", "_">>

\* str.endswith
EndsWith(s, suffix) ==
    /\ Len(s) >= Len(suffix)
    /\ SubSeq(s, Len(s) - Len(suffix) + 1, Len(s)) = suffix

\* s[:-n]
DropLast(s, n) == SubSeq(s, 1, Len(s) - n)

\* os.path.join(dir, name): the directory is kept as the first component
PathJoin(dir, name) == <<dir>> \o name

-----------------------------------------------------------------------------
(* process_dataset *)

\* Largest number of entries in one directory listing
MaxFiles == 2

\* File names a directory may hold
NamePool ==
    { <<"a">> \o DotWav,
      <<"b">> \o DotWav,
      DotWav,
      <<"a", ".", "t", "x", "t">> }

\* A listing: distinct names in the order os.listdir returns them, each file
\* readable (ok) or corrupt
Listings ==

    UNION { { [i \in 1..Len(ns) |-> [name |-> ns[i], ok |-> f[i]]]
                : f \in [1..Len(ns) -> BOOLEAN] }
            : ns \in InjSeqs(NamePool, MaxFiles) }

\* load_and_preprocess_audio as process_dataset sees it: librosa.load raises
\* on a corrupt file, the except clause prints and returns None
LoadNoTry(entry) == IF entry.ok THEN "audio" ELSE "raise"

LoadOutcome(entry) == IF entry.ok THEN "audio" ELSE "None"

\* f'{prefix}{filename[:-5]}.png' instead of filename[:-4]
SpectrogramPathShortStem(prefix, filename) ==
    PathJoin("spectrograms", prefix \o DropLast(filename, 5) \o DotPng)

\* os.path.join(output_dir, 'spectrograms', f'{prefix}{filename[:-4]}.png')
SpectrogramPath(prefix, filename) ==
    PathJoin("spectrograms", prefix \o DropLast(filename, 4) \o DotPng)

\* One iteration of a for loop of process_dataset
ProcessFile(list, dir, prefix, label) ==
    /\ bidx < Len(list)
    /\ LET entry == list[bidx + 1]
           filename == entry.name
           file_path == PathJoin(dir, filename)
           audio == LoadOutcome(entry)
           output_path == SpectrogramPath(prefix, filename)
       IN IF ~EndsWith(filename, DotWav)
          THEN /\ bidx' = bidx + 1
               /\ UNCHANGED <<bpc, data, skipped, written>>
          ELSE CASE audio = "raise" ->
                      /\ bpc' = "raised"
                      /\ UNCHANGED <<bidx, data, skipped, written>>
                 [] audio = "None" ->
                      /\ bidx' = bidx + 1
                      /\ skipped' = Append(skipped, file_path)
                      /\ UNCHANGED <<bpc, data, written>>
                 [] OTHER ->
                      /\ bidx' = bidx + 1
                      /\ written' = written \cup {output_path}
                      /\ data' = Append(data,
                            [filename |-> filename,
                             spectrogram_path |-> output_path,
                             label |-> label,
                             original_path |-> file_path])
                      /\ UNCHANGED <<bpc, skipped>>
    /\ UNCHANGED <<pdList, hcList>>
    /\ UNCHANGED notBatch

ProcessParkinsonsFile ==
    /\ bpc = "pd"
    /\ ProcessFile(pdList, "parkinsons_dir", PdPrefix, 1)

\* The first loop is exhausted: print and start the control loop
StartControl ==
    /\ bpc = "pd"
    /\ bidx = Len(pdList)
    /\ bpc' = "control"
    /\ bidx' = 0
    /\ UNCHANGED <<pdList, hcList, data, skipped, written>>
    /\ UNCHANGED notBatch

ProcessControlFile ==
    /\ bpc = "control"
    /\ ProcessFile(hcList, "control_dir", ControlPrefix, 0)

\* Both loops are exhausted: the records become the DataFrame
CreateDataFrame ==
    /\ bpc = "control"
    /\ bidx = Len(hcList)
    /\ bpc' = "split"
    /\ UNCHANGED <<pdList, hcList, bidx, data, skipped, written>>
    /\ UNCHANGED notBatch

BatchInit ==
    /\ pdList \in Listings
    /\ hcList \in Listings
    /\ bpc = "pd"
    /\ bidx = 0
    /\ data = <<>>
    /\ skipped = <<>>
    /\ written = {}

BatchNext ==
    \/ ProcessParkinsonsFile
    \/ StartControl
    \/ ProcessControlFile
    \/ CreateDataFrame

BatchIdle ==
    /\ pdList = <<>>
    /\ hcList = <<>>
    /\ bpc = "idle"
    /\ bidx = 0
    /\ data = <<>>
    /\ skipped = <<>>
    /\ written = {}

-----------------------------------------------------------------------------
(* Matrices are sequences of rows; every row has the same length.          *)

Rows(m) == Len(m)

Cols(m) == Len(m[1])

Cells(m) == {m[i][j] : i \in 1..Rows(m), j \in 1..Cols(m)}

SetMax(S) == CHOOSE x \in S : \A y \in S : y <= x

SetMin(S) == CHOOSE x \in S : \A y \in S : x <= y

\* np.max, np.min
NpMax(m) == SetMax(Cells(m))

NpMin(m) == SetMin(Cells(m))

-----------------------------------------------------------------------------
(* spec_augment *)

freq_mask_param == 10

time_mask_param == 20

num_masks == 2

\* Largest number of rows and of columns of a matrix given to spec_augment
MaxAugRows == 3

MaxAugCols == 3

\* Decibel values of the input matrices
AugLevels == <<-80, -40, 0>>

\* The input matrices: for every shape, the cell (i, j) holds level
\* (a*i + b*j + c) mod 3
AugInputs ==
    { [i \in 1..r |-> [j \in 1..c |-> AugLevels[((a * i + b * j + k) % 3) + 1]]]
        : r \in 1..MaxAugRows, c \in 1..MaxAugCols,
          a \in 0..2, b \in 0..2, k \in 0..2 }

\* spec = spec (no copy): the local is the caller's array
SpecIsAlias == FALSE

\* spec = spec.copy(): the local is a new array
SpecIsCopy == TRUE

\* spec[f0:f0 + f, :] = value
FillRows(m, f0, f, value) ==
    [i \in 1..Rows(m) |->
        [j \in 1..Cols(m) |->
            IF f0 < i /\ i <= f0 + f THEN value ELSE m[i][j]]]

\* spec[:, t0:t0 + t] = value
FillCols(m, t0, t, value) ==
    [i \in 1..Rows(m) |->
        [j \in 1..Cols(m) |->
            IF t0 < j /\ j <= t0 + t THEN value ELSE m[i][j]]]

\* Line 186
SpecAugmentEnter ==
    /\ saPc = "call"
    /\ saSpec' = saCaller
    /\ saPc' = "freq"
    /\ saI' = 0
    /\ UNCHANGED <<saArg, saCaller, saMasks>>
    /\ UNCHANGED notAug

\* What an assignment to spec does to the caller's array
CallerAfter(newSpec) == IF SpecIsCopy THEN saCaller ELSE newSpec

\* One iteration of the frequency loop, lines 189-192.  np.random.randint
\* (0, high) raises ValueError unless high > 0.
FreqMask ==
    /\ saPc = "freq"
    /\ \E f \in 0..(freq_mask_param - 1) :
          IF Rows(saSpec) - f <= 0
          THEN /\ saPc' = "raised"
               /\ UNCHANGED <<saArg, saCaller, saSpec, saI, saMasks>>
          ELSE \E f0 \in 0..(Rows(saSpec) - f - 1) :
                 /\ saSpec' = FillRows(saSpec, f0, f, NpMin(saSpec))
                 /\ saCaller' = CallerAfter(saSpec')
                 /\ saMasks' = Append(saMasks,
                                  [axis |-> 0, start |-> f0, width |-> f])
                 /\ IF saI + 1 < num_masks
                    THEN saI' = saI + 1 /\ saPc' = "freq"
                    ELSE saI' = 0 /\ saPc' = "time"
                 /\ UNCHANGED saArg
    /\ UNCHANGED notAug

\* One iteration of the time loop, lines 195-198
TimeMask ==
    /\ saPc = "time"
    /\ \E t \in 0..(time_mask_param - 1) :
          IF Cols(saSpec) - t <= 0
          THEN /\ saPc' = "raised"
               /\ UNCHANGED <<saArg, saCaller, saSpec, saI, saMasks>>
          ELSE \E t0 \in 0..(Cols(saSpec) - t - 1) :
                 /\ saSpec' = FillCols(saSpec, t0, t, NpMin(saSpec))
                 /\ saCaller' = CallerAfter(saSpec')
                 /\ saMasks' = Append(saMasks,
                                  [axis |-> 1, start |-> t0, width |-> t])
                 /\ IF saI + 1 < num_masks
                    THEN saI' = saI + 1 /\ saPc' = "time"
                    ELSE saI' = saI + 1 /\ saPc' = "returned"
                 /\ UNCHANGED saArg
    /\ UNCHANGED notAug

AugInit ==
    /\ saArg \in AugInputs
    /\ saCaller = saArg
    /\ saSpec = <<>>
    /\ saPc = "call"
    /\ saI = 0
    /\ saMasks = <<>>

AugNext ==
    \/ SpecAugmentEnter
    \/ FreqMask
    \/ TimeMask

AugIdle ==
    /\ saArg = <<>>
    /\ saCaller = <<>>
    /\ saSpec = <<>>
    /\ saPc = "idle"
    /\ saI = 0
    /\ saMasks = <<>>

-----------------------------------------------------------------------------
(* get_audio_augmenter *)

Transforms == {"AddGaussianNoise", "TimeStretch", "PitchShift", "Gain"}

\* What a constructor call can do: build the transform, raise TypeError
\* (unexpected keyword argument), or raise AttributeError (the module has no
\* such class)
\* Gain is called with min_gain_in_db first and with min_gain_db second; the
\* installed Gain takes the new names, the old names, both or neither.
LibStates ==
    { [AddGaussianNoise |-> n, TimeStretch |-> t, PitchShift |-> p, Gain |-> g]
        : n \in {"ok", "TypeError", "AttributeError"},
          t \in {"ok", "TypeError", "AttributeError"},
          p \in {"ok", "TypeError", "AttributeError"},
          g \in {"new", "old", "both", "TypeError", "AttributeError"} }

\* The outcome of one constructor call; kw is the Gain keyword set in use
Construct(name, kw) ==
    IF name = "Gain"
    THEN CASE lib.Gain = "AttributeError" -> "AttributeError"
           [] lib.Gain = "TypeError" -> "TypeError"
           [] lib.Gain = "both" -> "ok"
           [] OTHER -> IF lib.Gain = kw THEN "ok" ELSE "TypeError"
    ELSE lib[name]

\* The list display evaluates the constructors left to right: the first
\* exception leaves it
RECURSIVE BuildList(_, _)
BuildList(names, kw) ==
    IF names = <<>> THEN "ok"
    ELSE IF Construct(Head(names), kw) # "ok"
         THEN Construct(Head(names), kw)
         ELSE BuildList(Tail(names), kw)

FullSet == <<"AddGaussianNoise", "TimeStretch", "PitchShift", "Gain">>

MinimalSet == <<"AddGaussianNoise", "TimeStretch">>

\* A try block around a list: returns it, goes to the except TypeError
\* clause, or lets the exception out
TryBuild(names, kw, onTypeError) ==
    LET r == BuildList(names, kw)
    IN CASE r = "ok" ->
              /\ augmenter' = names
              /\ gaPc' = "returned"
              /\ gaError' = gaError
         [] r = "TypeError" /\ onTypeError # "raised" ->
              /\ gaPc' = onTypeError
              /\ UNCHANGED <<augmenter, gaError>>
         [] OTHER ->
              /\ gaPc' = "raised"
              /\ gaError' = r
              /\ augmenter' = augmenter

\* Lines 153-161
TryNewApi ==
    /\ gaPc = "try_new"
    /\ TryBuild(FullSet, "new", "try_old")
    /\ UNCHANGED lib
    /\ UNCHANGED notGa

\* Lines 163-170
TryOldApi ==
    /\ gaPc = "try_old"
    /\ TryBuild(FullSet, "old", "minimal")
    /\ UNCHANGED lib
    /\ UNCHANGED notGa

\* Lines 170-177: not inside any try
UseMinimalSet ==
    /\ gaPc = "minimal"
    /\ TryBuild(MinimalSet, "old", "raised")
    /\ UNCHANGED lib
    /\ UNCHANGED notGa

GaInit ==
    /\ lib \in LibStates
    /\ gaPc = "try_new"
    /\ augmenter = <<>>
    /\ gaError = "none"

GaNext ==
    \/ TryNewApi
    \/ TryOldApi
    \/ UseMinimalSet

GaIdle ==
    /\ lib = <<>>
    /\ gaPc = "idle"
    /\ augmenter = <<>>
    /\ gaError = "none"

-----------------------------------------------------------------------------
(* SpectrogramDataset.__getitem__ and process_example_file: which stage is  *)
(* applied to what, in which order.                                        *)

plConfig == <<plFn, plAugment, plExists, plReadable, plTransform>>

\* Run a stage on the value in hand; it yields a value of kind out
RunStage(stage, out, next) ==
    /\ plStages' = Append(plStages, [stage |-> stage, input |-> plKind])
    /\ plKind' = out
    /\ plPc' = next
    /\ UNCHANGED plConfig
    /\ UNCHANGED notPl

\* Go on without running a stage
SkipTo(next) ==
    /\ plPc' = next
    /\ UNCHANGED <<plKind, plStages>>
    /\ UNCHANGED plConfig
    /\ UNCHANGED notPl

\* Line 294: the saved image exists or not
GetItemBranch ==
    /\ plFn = "getitem"
    /\ plPc = "start"
    /\ SkipTo(IF plExists THEN "imread" ELSE "load")

\* Lines 296-298: cv2.imread of the image resize_for_cnn produced
ReadSavedImage ==
    /\ plPc = "imread"
    /\ RunStage("imread", "image", "saved_augment")

\* Lines 301-307: self.augment and random.random() > 0.5; the image is made
\* gray, given to spec_augment and colormapped again
SavedImageAugment ==
    /\ plPc = "saved_augment"
    /\ \E draw \in BOOLEAN :
          IF plAugment /\ draw
          THEN RunStage("spec_augment", "image", "transform")
          ELSE SkipTo("transform")

\* Lines 316, 374: load_and_preprocess_audio; None for an unreadable file
LoadAudio ==
    /\ plPc = "load" \/ (plFn = "example" /\ plPc = "start")
    /\ RunStage("load", IF plReadable THEN "waveform" ELSE "none",
                IF plFn = "example" /\ ~plReadable
                THEN "returned" ELSE "audio_augment")

\* Lines 319-320 (a draw) and 380-382 (no draw).  A None waveform is given
\* on to the stages, which raise on it.
AudioAugment ==
    /\ plPc = "audio_augment"
    /\ \E draw \in BOOLEAN :
          IF plAugment /\ (draw \/ plFn = "example")
          THEN IF plKind = "none"
               THEN SkipTo("raised")
               ELSE RunStage("audio_augment", "waveform", "extract")
          ELSE SkipTo("extract")

\* Lines 323, 385: create_mel_spectrogram
ExtractSpectrogram ==
    /\ plPc = "extract"
    /\ IF plKind = "none"
       THEN SkipTo("raised")
       ELSE RunStage("extract", "matrix", "spec_augment")

\* Lines 326-327 (a draw) and 388-389 (no draw)
MatrixAugment ==
    /\ plPc = "spec_augment"
    /\ \E draw \in BOOLEAN :
          IF plAugment /\ (draw \/ plFn = "example")
          THEN RunStage("spec_augment", "matrix", "format")
          ELSE SkipTo("format")

\* Lines 330, 392: resize_for_cnn
FormatImage ==
    /\ plPc = "format"
    /\ RunStage("format", "image",
                IF plFn = "example" THEN "returned" ELSE "transform")

\* Lines 310-311 and 333-334, then return img, label
ApplyTransform ==
    /\ plPc = "transform"
    /\ IF plTransform
       THEN RunStage("transform", "image", "returned")
       ELSE SkipTo("returned")

PlInit ==
    /\ plFn \in {"getitem", "example"}
    /\ plAugment \in BOOLEAN
    /\ plExists \in BOOLEAN
    /\ plReadable \in BOOLEAN
    /\ plTransform \in BOOLEAN
    /\ plPc = "start"
    /\ plKind = "none"
    /\ plStages = <<>>

PlNext ==
    \/ GetItemBranch
    \/ ReadSavedImage
    \/ SavedImageAugment
    \/ LoadAudio
    \/ AudioAugment
    \/ ExtractSpectrogram
    \/ MatrixAugment
    \/ FormatImage
    \/ ApplyTransform

PlIdle ==
    /\ plFn = "none"
    /\ plAugment = FALSE
    /\ plExists = FALSE
    /\ plReadable = FALSE
    /\ plTransform = FALSE
    /\ plPc = "idle"
    /\ plKind = "none"
    /\ plStages = <<>>

-----------------------------------------------------------------------------
(* load_and_preprocess_audio.  A waveform is [len, amp, peak]: len samples *)
(* in blocks of one hop (512 samples, the last block may be shorter), amp  *)
(* the amplitude of each block in hundredths, sample value amp / peak.     *)
(* Frames are centred, as librosa.feature.rms and librosa.effects.trim     *)
(* frame them (center=True, zero padding): frame t covers the samples      *)
(* [t*hop - frame_length/2, t*hop + frame_length/2).                       *)

rms_frame_length == 1024

rms_hop_length == 512

\* frame_length of librosa.effects.trim (its default)
trim_frame_length == 2048

\* Largest number of blocks of a loaded waveform
MaxBlocks == 8

\* Number of samples of the last block of a loaded waveform
TailLens == {1, 200, 512}

\* Block amplitudes, in hundredths of full scale
AmpLevels == {0, 2, 100}

\* What librosa.load returns for a file of b blocks, the last of r samples
Loaded(b, r, a) ==
    [len |-> rms_hop_length * (b - 1) + r, amp |-> a, peak |-> 100]

None == [len |-> -1, amp |-> <<>>, peak |-> 0]

NumBlocks(w) == Len(w.amp)

\* Sum of squares of the samples of block b (from 0) in amplitude units;
\* 0 outside the waveform (the padding)
BlockSS(w, b) ==
    IF b < 0 \/ b >= NumBlocks(w) THEN 0
    ELSE Min2(rms_hop_length, w.len - rms_hop_length * b)
            * w.amp[b + 1] * w.amp[b + 1]

RECURSIVE SumBlocks(_, _, _)
SumBlocks(w, from, to) ==
    IF from > to THEN 0 ELSE BlockSS(w, from) + SumBlocks(w, from + 1, to)

\* Sum of squares of frame t for a frame length of 2*h blocks
FrameSS(w, t, frame_length) ==
    LET h == frame_length \div (2 * rms_hop_length)
    IN SumBlocks(w, t - h, t + h - 1)

\* Frames of a centred framing with hop 512: 1 + len // hop
Frames(w) == 0..(w.len \div rms_hop_length)

MaxFrameSS(w, frame_length) ==
    SetMax({FrameSS(w, t, frame_length) : t \in Frames(w)})

\* y[start:end], start a multiple of the hop
Slice(w, start, end) ==
    IF end <= start THEN [len |-> 0, amp |-> <<>>, peak |-> w.peak]
    ELSE [len |-> end - start,
          amp |-> SubSeq(w.amp, start \div rms_hop_length + 1,
                         (end + rms_hop_length - 1) \div rms_hop_length),
          peak |-> w.peak]

\* librosa.effects.trim(y, top_db=35): a frame is non-silent when its rms in
\* dB relative to the largest rms is above -35 dB (a power ratio above
\* 1/3162); amplitude_to_db floors the power at 1e-10, which is 0.002 of the
\* power of one sample of amplitude 0.01 in a frame, so an all-zero frame is
\* non-silent when the largest frame's sum of squares is at most 6.
NonSilentGiven(w, m) ==
    {t \in Frames(w) :
        LET ss == FrameSS(w, t, trim_frame_length)
        IN IF ss = 0 THEN m <= 6 ELSE ss > m \div 3162}

NonSilent(w) == NonSilentGiven(w, MaxFrameSS(w, trim_frame_length))

TrimTo(w, ns) ==
    IF ns = {} THEN Slice(w, 0, 0)
    ELSE Slice(w, SetMin(ns) * rms_hop_length,
               Min2(w.len, (SetMax(ns) + 1) * rms_hop_length))

Trim(w) == TrimTo(w, NonSilent(w))

\* Lines 58-62: energy > 0.03 * max(energy), energy the rms of the frame:
\* ss > 0.0009 * max ss
ActiveGiven(w, m) ==
    {t \in Frames(w) : FrameSS(w, t, rms_frame_length) > (9 * m) \div 10000}

ActiveFrames(w) == ActiveGiven(w, MaxFrameSS(w, rms_frame_length))

\* start_sample without the frame of padding
StartSampleNoPad(active) == SetMin(active) * rms_hop_length

\* Line 66
StartSample(active) ==
    Max2(0, SetMin(active) * rms_hop_length - rms_frame_length)

\* Line 67
EndSample(w, active) ==
    Min2(w.len, (SetMax(active) + 1) * rms_hop_length + rms_frame_length)

\* Lines 64-70
EnergyCrop(w, active) ==
    IF Cardinality(active) > 0
    THEN Slice(w, StartSample(active), EndSample(w, active))
    ELSE w

\* librosa.util.normalize: divide by the largest magnitude, unless it is
\* (almost) zero
Normalize(w) ==
    LET m == SetMax({0} \cup Range(w.amp))
    IN IF m = 0 THEN w ELSE [w EXCEPT !.peak = m]

\* The whole of load_and_preprocess_audio, lines 44-75
LoadAndPreprocess ==
    /\ ldPc = "call"
    /\ ldPc' = "returned"
    /\ IF ~ldFile.ok
       THEN /\ ldPrinted' = TRUE
            /\ ldOut' = None
            /\ UNCHANGED <<ldTrimmed, ldActive, ldCropped>>
       ELSE \E trimmed \in {Trim(ldFile.wave)} :
            \E active \in {ActiveFrames(trimmed)} :
            \E cropped \in {EnergyCrop(trimmed, active)} :
               /\ ldTrimmed' = trimmed
               /\ ldActive' = active
               /\ ldCropped' = cropped
               /\ ldOut' = Normalize(cropped)
               /\ UNCHANGED ldPrinted
    /\ UNCHANGED ldFile
    /\ UNCHANGED notLd

LdInit ==
    /\ \/ ldFile = [ok |-> FALSE, wave |-> None]
       \/ \E b \in 1..MaxBlocks, r \in TailLens :
             \E a \in [1..b -> AmpLevels] :
                ldFile = [ok |-> TRUE, wave |-> Loaded(b, r, a)]
    /\ ldPc = "call"
    /\ ldTrimmed = None
    /\ ldActive = {}
    /\ ldCropped = None
    /\ ldOut = None
    /\ ldPrinted = FALSE

LdNext == LoadAndPreprocess

LdIdle ==
    /\ ldFile = [ok |-> FALSE, wave |-> None]
    /\ ldPc = "idle"
    /\ ldTrimmed = None
    /\ ldActive = {}
    /\ ldCropped = None
    /\ ldOut = None
    /\ ldPrinted = FALSE

-----------------------------------------------------------------------------
(* create_mel_spectrogram.  A spectrogram is a sequence of time frames,    *)
(* each a sequence of N_MELS values.  A power is held as its level in dB   *)
(* re 1.0 (the power is 10^(level/10)); ZeroPower stands for the power 0.  *)
(* Linear energies are exact to 1e-10: a pair <<hi, lo>> is the number     *)
(* (hi * 10^5 + lo) * 1e-10.                                               *)

N_MELS == 128

\* Largest number of time frames of mel_spec
MaxFrames == 7

ZeroPower == -1000

\* The frames mel_spec is made of: the same power in every band, or power
\* in one band only
FrameKinds ==
    { [shape |-> "flat", level |-> -1],
      [shape |-> "tone", level |-> 0],
      [shape |-> "flat", level |-> ZeroPower] }

\* The band a tone frame has its power in
ToneBand == N_MELS \div 3

\* The power of band r of a frame
BandPower(kind, r) ==
    IF kind.shape = "flat" \/ r = ToneBand THEN kind.level ELSE ZeroPower

\* librosa.power_to_db(S, ref=np.max): amin = 1e-10 (-100 dB), top_db = 80.
\* 10*log10(max(amin, S)) - 10*log10(max(amin, max S)), then nothing below
\* the largest value minus top_db.
AminDb == -100

TopDb == 80

\* power_to_db without ref=np.max: decibels re 1.0
PowerToDbAbsolute(level, maxLevel) ==
    Max2(Max2(level, AminDb), Max2(maxLevel, AminDb) - TopDb)

PowerToDb(level, maxLevel) ==
    Max2(Max2(level, AminDb) - Max2(maxLevel, AminDb), 0 - TopDb)

\* 10^(-d/10) for d = 0..9, in units of 1e-10
Mantissa(d) ==
    CASE d = 0 -> <<100000, 0>>
      [] d = 1 -> <<79432, 82347>>
      [] d = 2 -> <<63095, 73445>>
      [] d = 3 -> <<50118, 72336>>
      [] d = 4 -> <<39810, 71706>>
      [] d = 5 -> <<31622, 77660>>
      [] d = 6 -> <<25118, 86432>>
      [] d = 7 -> <<19952, 62315>>
      [] d = 8 -> <<15848, 93192>>
      [] d = 9 -> <<12589, 25412>>

RECURSIVE Pow10(_)
Pow10(k) == IF k = 0 THEN 1 ELSE 10 * Pow10(k - 1)

\* <<hi, lo>> divided by 10^k
ShiftRight(v, k) ==
    IF k <= 5
    THEN <<v[1] \div Pow10(k),
           (v[1] % Pow10(k)) * Pow10(5 - k) + v[2] \div Pow10(k)>>
    ELSE <<0, v[1] \div Pow10(k - 5)>>

\* np.power(10, db/10) for a whole number of decibels db <= 0
Lin(db) == ShiftRight(Mantissa((0 - db) % 10), (0 - db) \div 10)

\* The sum of limb i of Lin over the bands of a frame whose value is in
\* values: each value times the number of bands that hold it
RECURSIVE SumLin(_, _, _)
SumLin(frame, i, values) ==
    IF values = {} THEN 0
    ELSE LET v == SetMax(values)
         IN Cardinality({r \in 1..Len(frame) : frame[r] = v}) * Lin(v)[i]
            + SumLin(frame, i, values \ {v})

Carry(v) == <<v[1] + v[2] \div 100000, v[2] % 100000>>

\* Line 95: np.sum(np.power(10, mel_spec_db/10), axis=0) + eps, eps = 1e-10
SpecEnergy(frame) ==
    Carry(<<SumLin(frame, 1, Range(frame)),
            SumLin(frame, 2, Range(frame)) + 1>>)

\* spec_energy of the first n frames
RECURSIVE SpecEnergies(_, _)
SpecEnergies(db, n) ==
    IF n = 0 THEN <<>>
    ELSE Append(SpecEnergies(db, n - 1), SpecEnergy(db[n]))

Greater(a, b) == a[1] > b[1] \/ (a[1] = b[1] /\ a[2] > b[2])

Times100(v) == Carry(<<100 * v[1], 100 * v[2]>>)

\* np.max(spec_energy)
MaxEnergy(energy) ==
    CHOOSE m \in Range(energy) : \A e \in Range(energy) : ~Greater(e, m)

\* Lines 98-99: spec_energy > 0.01 * np.max(spec_energy)
ActiveAbove(energy, m) ==
    {c \in 0..(Len(energy) - 1) : Greater(Times100(energy[c + 1]), m)}

ActiveCols(energy) == ActiveAbove(energy, MaxEnergy(energy))

padding == 5

\* end_col without the padding
EndColNoPadding(active, width) == Min2(SetMax(active), width - 1)

\* Line 104
EndCol(active, width) == Min2(SetMax(active) + padding, width - 1)

\* Lines 101-105
CropTrailing(db, active) ==
    IF Cardinality(active) > 0
    THEN SubSeq(db, 1, Min2(Len(db), EndCol(active, Len(db)) + 1))
    ELSE db

\* The largest level of mel_spec
MaxLevel(frames) == SetMax({f.level : f \in Range(frames)})

\* The whole of create_mel_spectrogram from mel_spec on, lines 90-107
CreateMelSpectrogram ==
    /\ exPc = "call"
    /\ exPc' = "returned"
    /\ \E top \in {MaxLevel(exFrames)} :
          exDb' = [c \in 1..Len(exFrames) |->
                     [r \in 1..N_MELS |->
                        PowerToDb(BandPower(exFrames[c], r), top)]]
    /\ \E energy \in {SpecEnergies(exDb', Len(exFrames))} :
       \E active \in {ActiveCols(energy)} :
          /\ exActive' = active
          /\ exOut' = CropTrailing(exDb', active)
    /\ UNCHANGED exFrames
    /\ UNCHANGED notEx

ExInit ==
    /\ \E w \in 1..MaxFrames : exFrames \in [1..w -> FrameKinds]
    /\ exPc = "call"
    /\ exDb = <<>>
    /\ exActive = {}
    /\ exOut = <<>>

ExNext == CreateMelSpectrogram

ExIdle ==
    /\ exFrames = <<>>
    /\ exPc = "idle"
    /\ exDb = <<>>
    /\ exActive = {}
    /\ exOut = <<>>

-----------------------------------------------------------------------------
(* resize_for_cnn.  A resized matrix is held as [den, m]: the value of a    *)
(* cell is m[i][j] / den, so that bilinear interpolation is exact.         *)

\* Largest number of rows and of columns of a matrix given to resize_for_cnn
MaxFmtRows == 5

MaxFmtCols == 6

\* The target sizes tried, <<height, width>>
TargetSizes == {<<1, 1>>, <<2, 3>>, <<4, 4>>, <<5, 5>>}

\* The input matrices: for every shape, cell (i, j) is -20 * ((a*i + b*j) mod 5)
FmtInputs ==
    { [i \in 1..r |-> [j \in 1..c |-> (0 - 20) * ((ab[1] * i + ab[2] * j) % 5)]]
        : r \in 1..MaxFmtRows, c \in 1..MaxFmtCols,
          ab \in {<<0, 0>>, <<1, 0>>, <<0, 1>>, <<1, 2>>} }

Abs(x) == IF x < 0 THEN 0 - x ELSE x

\* Line 118: abs(spec.shape[1] - n_mels) / n_mels > 0.2
FarFromSquare(rows, cols) == 5 * Abs(cols - rows) > rows

\* cv2.resize, INTER_LINEAR, along one axis: destination index d (from 0) of
\* D reads the source of S at ((2d + 1) * S - D) / (2D), clamped to the
\* source.  The result is [at, frac]: source index (from 1) and the weight
\* of the next source cell in units of 1/(2D).
SourceAt(d, S, D) ==
    LET num == (2 * d + 1) * S - D
        at == num \div (2 * D)
    IN IF num < 0 THEN [at |-> 1, next |-> 1, frac |-> 0]
       ELSE IF at >= S - 1 THEN [at |-> S, next |-> S, frac |-> 0]
       ELSE [at |-> at + 1, next |-> at + 2, frac |-> num - at * 2 * D]

\* cv2.resize(m, (cols, rows), interpolation=cv2.INTER_LINEAR) of [den, m]
Resize(img, rows, cols) ==
    [den |-> img.den * 4 * rows * cols,
     m |-> [i \in 1..rows |-> [j \in 1..cols |->
              LET y == SourceAt(i - 1, Rows(img.m), rows)
                  x == SourceAt(j - 1, Cols(img.m), cols)
                  top == img.m[y.at][x.at] * (2 * cols - x.frac)
                         + img.m[y.at][x.next] * x.frac
                  bot == img.m[y.next][x.at] * (2 * cols - x.frac)
                         + img.m[y.next][x.next] * x.frac
              IN top * (2 * rows - y.frac) + bot * y.frac]]]

\* Lines 114-123
Square(img) ==
    IF FarFromSquare(Rows(img.m), Cols(img.m))
    THEN Resize(img, Rows(img.m), Rows(img.m))
    ELSE img

\* Lines 126-131: (x - min) / (max - min + 1e-10) * 255 as uint8.  In
\* float32 the 1e-10 is lost unless max = min; in float64 it keeps the
\* quotient just below the exact one.
Quantize(img, float64) ==
    LET lo == NpMin(img.m)
        hi == NpMax(img.m)
    IN [den |-> 1,
        m |-> [i \in 1..Rows(img.m) |-> [j \in 1..Cols(img.m) |->
                 LET x == 255 * (img.m[i][j] - lo)
                 IN IF hi = lo \/ x = 0 THEN 0
                    ELSE IF float64 /\ x % (hi - lo) = 0
                         THEN x \div (hi - lo) - 1
                         ELSE x \div (hi - lo)]]]

\* cv2.resize of a uint8 image: the interpolated value rounded
RoundCells(img) ==
    [den |-> 1,
     m |-> [i \in 1..Rows(img.m) |-> [j \in 1..Cols(img.m) |->
              (2 * img.m[i][j] + img.den) \div (2 * img.den)]]]

\* Lines 134-137: the comparison is with (n_mels, n_mels), not with the
\* shape of spec_img
ToTarget(img, target, n_mels) ==
    IF target # <<n_mels, n_mels>>
    THEN RoundCells(Resize(img, target[1], target[2]))
    ELSE img

Clamp255(x) == Max2(0, Min2(255, x))

\* cv2.applyColorMap(.., COLORMAP_JET) then BGR to RGB: the jet palette,
\* each channel 255 * clamp(1.5 - |4v/255 - k|), k = 3, 2, 1 for r, g, b
Jet(v) ==
    << Clamp255((3 * 255 - 2 * Abs(4 * v - 3 * 255)) \div 2),
       Clamp255((3 * 255 - 2 * Abs(4 * v - 2 * 255)) \div 2),
       Clamp255((3 * 255 - 2 * Abs(4 * v - 255)) \div 2) >>

\* Lines 141-144
Colorize(img) ==
    [i \in 1..Rows(img.m) |-> [j \in 1..Cols(img.m) |-> Jet(img.m[i][j])]]

\* The whole of resize_for_cnn, lines 109-146
ResizeForCnn ==
    /\ fmPc = "call"
    /\ fmPc' = "returned"
    /\ \E square_spec \in {Square([den |-> 1, m |-> fmSpec])} :
       \E spec_img \in {Quantize(square_spec, fmFloat64)} :
          fmOut' = Colorize(ToTarget(spec_img, fmTarget, Rows(fmSpec)))
    /\ UNCHANGED <<fmSpec, fmTarget, fmFloat64>>
    /\ UNCHANGED notFm

FmInit ==
    /\ fmSpec \in FmtInputs
    /\ fmTarget \in TargetSizes
    /\ fmFloat64 \in BOOLEAN
    /\ fmPc = "call"
    /\ fmOut = <<>>

FmNext == ResizeForCnn

FmIdle ==
    /\ fmSpec = <<>>
    /\ fmTarget = <<0, 0>>
    /\ fmFloat64 = FALSE
    /\ fmPc = "idle"
    /\ fmOut = <<>>

-----------------------------------------------------------------------------
(* Specifications: one per function, the other functions idle *)

InitBatch ==
    BatchInit /\ AugIdle /\ GaIdle /\ PlIdle /\ LdIdle /\ ExIdle /\ FmIdle

SpecBatch == InitBatch /\ [][BatchNext]_vars

InitAug ==
    AugInit /\ BatchIdle /\ GaIdle /\ PlIdle /\ LdIdle /\ ExIdle /\ FmIdle

SpecAug == InitAug /\ [][AugNext]_vars

InitGa ==
    GaInit /\ BatchIdle /\ AugIdle /\ PlIdle /\ LdIdle /\ ExIdle /\ FmIdle

SpecGa == InitGa /\ [][GaNext]_vars

InitPl ==
    PlInit /\ BatchIdle /\ AugIdle /\ GaIdle /\ LdIdle /\ ExIdle /\ FmIdle

SpecPl == InitPl /\ [][PlNext]_vars

InitLd ==
    LdInit /\ BatchIdle /\ AugIdle /\ GaIdle /\ PlIdle /\ ExIdle /\ FmIdle

SpecLd == InitLd /\ [][LdNext]_vars

InitEx ==
    ExInit /\ BatchIdle /\ AugIdle /\ GaIdle /\ PlIdle /\ LdIdle /\ FmIdle

SpecEx == InitEx /\ [][ExNext]_vars

InitFm ==
    FmInit /\ BatchIdle /\ AugIdle /\ GaIdle /\ PlIdle /\ LdIdle /\ ExIdle

SpecFm == InitFm /\ [][FmNext]_vars

-----------------------------------------------------------------------------
(* Claims about process_dataset *)

\* Indices of the first n entries of a listing that end in .wav and whose
\* readability is ok
WavEntries(list, n, ok) ==
    {i \in 1..n : EndsWith(list[i].name, DotWav) /\ list[i].ok = ok}

\* C1: with N readable and M corrupt .wav files in the two directories, in
\* any order, every file is visited, the run ends with exactly N records and
\* exactly M skip events, and it never stops before the listings are
\* exhausted: no unreadable file raises out of the loops, and at every point
\* of the loops the records and skips so far are those of the files visited.
C1_BatchSkipsUnreadable ==
    /\ bpc # "raised"
    /\ bpc \in {"pd", "control"} => ENABLED BatchNext
    /\ bpc = "pd" =>
          /\ Len(data) = Cardinality(WavEntries(pdList, bidx, TRUE))
          /\ Len(skipped) = Cardinality(WavEntries(pdList, bidx, FALSE))
    /\ bpc = "control" =>
          /\ Len(data) = Cardinality(WavEntries(pdList, Len(pdList), TRUE))
                       + Cardinality(WavEntries(hcList, bidx, TRUE))
          /\ Len(skipped) = Cardinality(WavEntries(pdList, Len(pdList), FALSE))
                          + Cardinality(WavEntries(hcList, bidx, FALSE))
    /\ bpc = "split" =>
          /\ bidx = Len(hcList)
          /\ Len(data) = Cardinality(WavEntries(pdList, Len(pdList), TRUE))
                       + Cardinality(WavEntries(hcList, Len(hcList), TRUE))
          /\ Len(skipped) = Cardinality(WavEntries(pdList, Len(pdList), FALSE))
                          + Cardinality(WavEntries(hcList, Len(hcList), FALSE))

\* A finished run in which a corrupt .wav file came first in each directory
\* and a readable one after it was still recorded
C1_Witness ==
    /\ bpc = "split"
    /\ Len(pdList) = 2 /\ Len(hcList) = 2
    /\ \A l \in {pdList, hcList} :
          /\ EndsWith(l[1].name, DotWav) /\ ~l[1].ok
          /\ EndsWith(l[2].name, DotWav) /\ l[2].ok
    /\ Len(data) = 2
    /\ Len(skipped) = 2

\* C6: every record's image path is the spectrogram directory, the prefix of
\* its label (pd_ for label 1, files of the Parkinson's directory; control_
\* for label 0, files of the control directory), the file name without its
\* .wav ending, and .png; only names ending in .wav have records; records of
\* distinct input files have distinct image paths.
C6_PathsFromNameAndLabel ==
    /\ \A i \in 1..Len(data) :
          LET r == data[i]
              stem == SubSeq(r.filename, 1, Len(r.filename) - 4)
          IN /\ EndsWith(r.filename, DotWav)
             /\ r.filename = stem \o DotWav
             /\ r.label \in {0, 1}
             /\ r.label = 1 =>
                   /\ r.original_path = <<"parkinsons_dir">> \o r.filename
                   /\ r.spectrogram_path =
                         <<"spectrograms">> \o PdPrefix \o stem \o DotPng
             /\ r.label = 0 =>
                   /\ r.original_path = <<"control_dir">> \o r.filename
                   /\ r.spectrogram_path =
                         <<"spectrograms">> \o ControlPrefix \o stem \o DotPng
             /\ r.spectrogram_path \in written
    /\ \A i, j \in 1..Len(data) :
          data[i].original_path # data[j].original_path
             => data[i].spectrogram_path # data[j].spectrogram_path
    /\ Cardinality(written) = Len(data)

\* A finished run with the same file name recorded from both directories
\* and a name that does not end in .wav passed over
C6_Witness ==
    /\ bpc = "split"
    /\ \E i, j \in 1..Len(data) :
          /\ data[i].label = 1 /\ data[j].label = 0
          /\ data[i].filename = data[j].filename
    /\ \E i \in 1..Len(pdList) : ~EndsWith(pdList[i].name, DotWav)
    /\ Len(data) = 3

-----------------------------------------------------------------------------
(* Claims about spec_augment *)

\* C4: when spec_augment returns, whatever widths and positions were drawn
\* for its 2 frequency and 2 time masks, the result has the shape of the
\* input and the minimum of the input, every cell of it is the input's cell
\* or the input's minimum, and the caller's matrix is as it was at the call.
C4_AugmentKeepsShapeMinAndInput ==
    saPc = "returned" =>
        /\ Len(saMasks) = 2 * num_masks
        /\ Rows(saSpec) = Rows(saArg)
        /\ Cols(saSpec) = Cols(saArg)
        /\ NpMin(saSpec) = NpMin(saArg)
        /\ \A i \in 1..Rows(saArg), j \in 1..Cols(saArg) :
              saSpec[i][j] \in {saArg[i][j], NpMin(saArg)}
        /\ saCaller = saArg

\* spec_augment has returned after a frequency mask and a time mask of
\* non-zero width changed cells of the matrix
C4_Witness ==
    /\ saPc = "returned"
    /\ \E a, b \in 1..Len(saMasks) :
          /\ saMasks[a].axis = 0 /\ saMasks[a].width > 0
          /\ saMasks[b].axis = 1 /\ saMasks[b].width > 0
    /\ saSpec # saArg
    /\ \E i \in 1..Rows(saArg), j \in 1..Cols(saArg) : saSpec[i][j] = saArg[i][j]

\* C10: spec_augment with its default parameters returns for every matrix
\* with at least one row and one column and every draw of the mask widths:
\* it never raises, and every mask it applies lies inside the matrix.
C10_AugmentNeverRaises ==
    /\ saPc # "raised"
    /\ \A k \in 1..Len(saMasks) :
          /\ saMasks[k].start >= 0
          /\ saMasks[k].start + saMasks[k].width
                <= (IF saMasks[k].axis = 0 THEN Rows(saArg) ELSE Cols(saArg))

-----------------------------------------------------------------------------
(* Claims about get_audio_augmenter *)

\* The transforms whose constructor fails with both Gain keyword sets
Broken ==
    {t \in Transforms \ {"Gain"} : lib[t] # "ok"} \cup
    (IF lib.Gain \in {"TypeError", "AttributeError"} THEN {"Gain"} ELSE {})

\* C5: whichever single transform is unavailable or rejects its constructor
\* arguments, get_audio_augmenter does not raise, and the augmenter it
\* returns is built from the remaining transforms only.
C5_AugmenterDegradesNeverFails ==
    Cardinality(Broken) = 1 =>
        /\ gaPc # "raised"
        /\ gaPc = "returned" =>
              /\ augmenter # <<>>
              /\ Range(augmenter) \cap Broken = {}

-----------------------------------------------------------------------------
(* Claims about the order of the stages *)

\* The position of a stage in the order load, waveform augmentation,
\* extraction, SpecAugmenter, ImageFormatter (0: not one of the five)
StageRank(stage) ==
    CASE stage = "load" -> 1
      [] stage = "audio_augment" -> 2
      [] stage = "extract" -> 3
      [] stage = "spec_augment" -> 4
      [] stage = "format" -> 5
      [] OTHER -> 0

\* C7: in every invocation of __getitem__ (saved-image path and on-the-fly
\* path) and of process_example_file, the stages run in the order load,
\* optional waveform augmentation, extraction, optional SpecAugmenter,
\* ImageFormatter; spec_augment is only ever given a spectrogram matrix,
\* never an already formatted image.
C7_StagesInOrder ==
    /\ \A k \in 1..Len(plStages) :
          plStages[k].stage = "spec_augment" => plStages[k].input = "matrix"
    /\ \A k, l \in 1..Len(plStages) :
          (k < l /\ StageRank(plStages[k].stage) > 0
                 /\ StageRank(plStages[l].stage) > 0)
             => StageRank(plStages[k].stage) < StageRank(plStages[l].stage)

-----------------------------------------------------------------------------
(* Claims about load_and_preprocess_audio *)

\* The value of sample k (from 0) of a waveform, in amplitude units
SampleAt(w, k) == w.amp[k \div 512 + 1]

\* One sample index in every block of a waveform of n samples, and the last
SamplePoints(n) == {k \in 0..(n - 1) : k % 512 = 0 \/ k = n - 1}

\* C8: with frames of 1024 samples every 512, if some frame's energy exceeds
\* 3% of the largest frame energy the waveform is cropped to the samples
\* [max(0, first_active*512 - 1024), min(len, (last_active+1)*512 + 1024)) of
\* the trimmed waveform, a span inside the waveform, not empty, that holds
\* every sample of every active frame; if no frame does, the waveform keeps
\* exactly the samples it had after the silence trim.
C8_EnergyCropSpan ==
    (ldPc = "returned" /\ ldFile.ok) =>
        LET y == ldTrimmed
            m == MaxFrameSS(y, 1024)
            active == {t \in 0..(y.len \div 512) :
                         FrameSS(y, t, 1024) > (9 * m) \div 10000}
        IN /\ ldActive = active
           /\ IF active # {}
              THEN LET first == SetMin(active)
                       last == SetMax(active)
                       start == Max2(0, first * 512 - 1024)
                       end == Min2(y.len, (last + 1) * 512 + 1024)
                   IN /\ 0 <= start /\ start < end /\ end <= y.len
                      /\ ldCropped.len = end - start
                      /\ \A k \in SamplePoints(end - start) :
                            SampleAt(ldCropped, k) = SampleAt(y, start + k)
                      /\ \A t \in active :
                            /\ start <= Max2(0, t * 512 - 512)
                            /\ Min2(y.len, t * 512 + 512) <= end
              ELSE /\ ldCropped = y
                   /\ m = 0
           /\ ldOut.len = ldCropped.len
           /\ ldOut.amp = ldCropped.amp

\* A readable file whose energy crop removed samples at both ends of the
\* trimmed waveform
C8_Witness ==
    /\ ldPc = "returned"
    /\ ldFile.ok
    /\ ldActive # {}
    /\ SetMin(ldActive) * 512 - 1024 > 0
    /\ (SetMax(ldActive) + 1) * 512 + 1024 < ldTrimmed.len
    /\ ldCropped.len < ldTrimmed.len - 512

-----------------------------------------------------------------------------
(* Claims about create_mel_spectrogram *)

\* The values of a spectrogram
DbValues(m) == UNION {Range(m[c]) : c \in 1..Len(m)}

\* The frames (from 0) of the uncropped matrix that hold a 0 dB value
PeakCols == {c \in 0..(Len(exDb) - 1) : 0 \in Range(exDb[c + 1])}

\* C3 as stated: the matrix returned, after the trailing crop, has every
\* value at most 0 and a maximum of exactly 0.
C3_ReturnedMaxIsZero ==
    exPc = "returned" =>
        /\ \A v \in DbValues(exOut) : v <= 0
        /\ 0 \in DbValues(exOut)

\* C3 as amended: every value of the matrix returned is at most 0, the
\* matrix before the crop has a maximum of exactly 0, and the matrix
\* returned has it too when a frame holding a 0 dB value is no more than 5
\* frames after the last active frame; when every such frame is further
\* right, the maximum of the matrix returned is below 0.
C3_MaxIsZeroWhenPeakKept ==
    exPc = "returned" =>
        /\ \A v \in DbValues(exOut) : v <= 0
        /\ SetMax(DbValues(exDb)) = 0
        /\ exActive # {}
        /\ (\E c \in PeakCols : c <= SetMax(exActive) + 5)
              <=> SetMax(DbValues(exOut)) = 0

\* The crop removed frames and a 0 dB value is among those kept, in a frame
\* that is not active
C3_Witness ==
    /\ exPc = "returned"
    /\ Len(exOut) < Len(exDb)
    /\ 0 \in DbValues(exOut)
    /\ \A c \in PeakCols : c \notin exActive

\* C9: with W frames and L the last frame whose energy exceeds 1% of the
\* largest frame energy, the matrix returned is exactly the first
\* min(L + 5, W - 1) + 1 frames of the matrix: a prefix with all 128 rows
\* and at most 5 frames after frame L; with no such frame it is the whole
\* matrix.
C9_TrailingCropIsPrefix ==
    exPc = "returned" =>
        \E W \in {Len(exDb)} :
        \E energy \in {SpecEnergies(exDb, W)} :
        \E largest \in {d \in 1..W : \A e \in 1..W : ~Greater(energy[e], energy[d])} :
        \E above \in {{c \in 0..(W - 1) :
                        Greater(Times100(energy[c + 1]), energy[largest])}} :
           /\ exActive = above
           /\ \A c \in 1..Len(exOut) : Len(exOut[c]) = 128
           /\ IF above = {}
              THEN exOut = exDb
              ELSE LET L == SetMax(above)
                       kept == Min2(L + 5, W - 1) + 1
                   IN /\ Len(exOut) = kept
                      /\ \A c \in 1..kept : exOut[c] = exDb[c]
                      /\ kept <= L + 6
                      /\ kept <= W

\* Frames were removed: the matrix returned ends 5 frames after the last
\* active frame, before the end of the matrix
C9_Witness ==
    /\ exPc = "returned"
    /\ exActive # {}
    /\ Len(exOut) = SetMax(exActive) + 6
    /\ Len(exOut) < Len(exDb)

-----------------------------------------------------------------------------
(* Claims about resize_for_cnn *)

\* C2: for every matrix with at least one row and one column and every
\* target_size, the image returned has shape target_size + (3,) and every
\* channel value is in 0..255.
C2_ImageHasTargetShape ==
    fmPc = "returned" =>
        /\ Len(fmOut) = fmTarget[1]
        /\ \A i \in 1..Len(fmOut) :
              /\ Len(fmOut[i]) = fmTarget[2]
              /\ \A j \in 1..Len(fmOut[i]) :
                    /\ Len(fmOut[i][j]) = 3
                    /\ \A ch \in 1..3 : fmOut[i][j][ch] \in 0..255

=============================================================================
